---- MODULE Spec2Model ----
\* A model of the metro realtime system: the train scheduler and the websocket
\* fan-out of realtime.py, driven by the simulate_train / trains_stop requests
\* of routes.py, over the route search of database.py.
EXTENDS Integers, Sequences, FiniteSets, TLC

\* ---------------------------------------------------------------- bounds
MaxInst == 2      \* TrainThread objects constructed in one run
NumCallers == 2   \* request threads inside start_train / stop_train at once
NumHandles == 2   \* websocket connections accepted in one run
NumStations == 2  \* rows of the stations table
MaxLog == 2       \* publish calls whose order is recorded
MaxRows == 1      \* rows of a Route.csv file
MaxRowLen == 3    \* names in one Route.csv row
MaxNameLen == 3   \* characters of a raw name whose keys are taken
MaxSuffixLen == 2 \* characters between the parentheses of a suffix

TrainIds == {"T1", "T2"}
Inst == 1..MaxInst
Callers == 1..NumCallers
Handles == 1..NumHandles

\* ------------------------------------------------------- program constants
DEFAULT_EDGE_SEC == 8   \* routes.py DEFAULT_EDGE_SEC, realtime.py run(): 8.0
MIN_EDGE_SEC == 1       \* max(1.0, ...) in run() and simulate_train

Max(a, b) == IF a >= b THEN a ELSE b
Min(a, b) == IF a <= b THEN a ELSE b

\* ------------------------------------------------------------------ state
VARIABLES
    trains,     \* _trains: train id -> TrainThread (0: no entry)
    threads,    \* the TrainThread objects and the position of each run()
    callers,    \* request threads: position in simulate_train / start_train / stop_train
    clients,    \* _clients: the list of connected websockets
    lock,       \* _clients_lock: the publisher or handler holding it
    bc,         \* the local state of each _broadcast call in progress
    ws,         \* position of each ws_handler
    pubCount,   \* history: publish passes begun so far (recorded up to MaxLog)
    recv,       \* history: the recorded passes each websocket received, in order
    dropped,    \* history: websockets removed from _clients as dead
    env,        \* the load of this run: who calls, who connects, what is asked
    data_dir,   \* the csv files of the data directory
    db,         \* the tables of the sqlite store
    out         \* the last database call made and what it returned

vars == <<trains, threads, callers, clients, lock, bc, ws, pubCount, recv, dropped, env,
          data_dir, db, out>>

\* ------------------------------------------------------- names and their keys
\* A name is a sequence of characters. "U+2019" stands for the right single
\* quotation mark, which the keys turn into an apostrophe.
IsSpace(c) == c = " "

\* str.replace(U+2019, "'")
ReplaceApostrophe(s) == [k \in 1..Len(s) |-> IF s[k] = "U+2019" THEN "'" ELSE s[k]]

\* re.sub(r"\s+", " ", s): every run of whitespace becomes one space
RECURSIVE CollapseSpaces(_)
CollapseSpaces(s) ==
    IF s = <<>> THEN <<>>
    ELSE IF IsSpace(Head(s))
    THEN IF Len(s) >= 2 /\ IsSpace(s[2]) THEN CollapseSpaces(Tail(s))
         ELSE <<" ">> \o CollapseSpaces(Tail(s))
    ELSE <<Head(s)>> \o CollapseSpaces(Tail(s))

\* str.strip()
RECURSIVE Strip(_)
Strip(s) ==
    IF s = <<>> THEN <<>>
    ELSE IF IsSpace(Head(s)) THEN Strip(Tail(s))
    ELSE IF IsSpace(s[Len(s)]) THEN Strip(SubSeq(s, 1, Len(s) - 1))
    ELSE s

\* str.lower()
Lower(s) == [k \in 1..Len(s) |-> IF s[k] = "A" THEN "a" ELSE IF s[k] = "B" THEN "b" ELSE s[k]]

\* _name_key: the strict key; parentheses are kept
_name_key(s) == Lower(Strip(CollapseSpaces(ReplaceApostrophe(s))))

\* the first index at or after i that holds no whitespace (Len(s) + 1: none)
RECURSIVE SkipSpaces(_, _)
SkipSpaces(s, i) == IF i <= Len(s) /\ IsSpace(s[i]) THEN SkipSpaces(s, i + 1) ELSE i

\* the first index at or after i that holds ")" (0: none)
RECURSIVE FindClose(_, _)
FindClose(s, i) ==
    IF i > Len(s) THEN 0 ELSE IF s[i] = ")" THEN i ELSE FindClose(s, i + 1)

\* the end of a match of _PAREN = \s*\([^)]*\)\s* that begins at i: the index
\* after it, or 0 when no match begins at i
ParenMatchEnd(s, i) ==
    LET j == SkipSpaces(s, i)
    IN  IF j > Len(s) \/ s[j] # "(" THEN 0
        ELSE LET k == FindClose(s, j + 1)
             IN  IF k = 0 THEN 0 ELSE SkipSpaces(s, k + 1)

\* _PAREN.sub("", s) from index i on: leftmost matches, not overlapping
RECURSIVE ParenSub(_, _)
ParenSub(s, i) ==
    IF i > Len(s) THEN <<>>
    ELSE LET e == ParenMatchEnd(s, i)
         IN  IF e # 0 THEN ParenSub(s, e) ELSE <<s[i]>> \o ParenSub(s, i + 1)

\* _group_key: the key with every parenthesised part removed
_group_key(s) == Lower(Strip(CollapseSpaces(ReplaceApostrophe(ParenSub(s, 1)))))

\* ------------------------------------------------ the data files and the store
\* an optional value: None, or a one-element tuple holding the value
None == <<>>
Some(x) == <<x>>

\* code points, for sorted(names)
Ord(c) ==
    CASE c = " " -> 32 [] c = "'" -> 39 [] c = "(" -> 40 [] c = ")" -> 41
      [] c = "A" -> 65 [] c = "B" -> 66 [] c = "a" -> 97 [] c = "b" -> 98
      [] OTHER -> 8217

\* s < t as Python compares str
RECURSIVE StrLess(_, _)
StrLess(s, t) ==
    IF t = <<>> THEN FALSE
    ELSE IF s = <<>> THEN TRUE
    ELSE IF Head(s) # Head(t) THEN Ord(Head(s)) < Ord(Head(t))
    ELSE StrLess(Tail(s), Tail(t))

\* sorted(names)
RECURSIVE SortedNames(_)
SortedNames(S) ==
    IF S = {} THEN <<>>
    ELSE LET m == CHOOSE x \in S : \A y \in S \ {x} : StrLess(x, y)
         IN  <<m>> \o SortedNames(S \ {m})

\* a set of (u, v) pairs in ascending order: the order a set of id pairs is
\* iterated in
RECURSIVE SortedPairs(_)
SortedPairs(S) ==
    IF S = {} THEN <<>>
    ELSE LET m == CHOOSE x \in S : \A y \in S :
                      x[1] < y[1] \/ (x[1] = y[1] /\ x[2] <= y[2])
         IN  <<m>> \o SortedPairs(S \ {m})

\* the cells of a csv row that are not blank, stripped
Cells(row) == SelectSeq([k \in 1..Len(row) |-> Strip(row[k])], LAMBDA c : c # <<>>)

\* the tables after _create_tables on a new file. stations: <<station_id, name>>,
\* routes: <<from_id, to_id, travel_time_min>>, time_pairs: <<from_id, to_id,
\* total_min>>, each in rowid order
EmptyDb == [stations |-> <<>>, routes |-> <<>>, time_pairs |-> <<>>]

\* INSERT OR IGNORE INTO stations: a row whose station_id or name is taken is
\* dropped
RECURSIVE InsertOrIgnore(_, _)
InsertOrIgnore(table, rows) ==
    IF rows = <<>> THEN table
    ELSE LET r == Head(rows)
             taken == \E k \in 1..Len(table) : table[k][1] = r[1] \/ table[k][2] = r[2]
         IN  InsertOrIgnore(IF taken THEN table ELSE Append(table, r), Tail(rows))

\* INSERT OR REPLACE INTO routes / time_pairs, UNIQUE(from_id, to_id): the row
\* of the same pair is deleted and the new row gets the next rowid
RECURSIVE InsertOrReplace(_, _)
InsertOrReplace(table, rows) ==
    IF rows = <<>> THEN table
    ELSE LET r == Head(rows)
             kept == SelectSeq(table, LAMBDA x : ~(x[1] = r[1] /\ x[2] = r[2]))
         IN  InsertOrReplace(Append(kept, r), Tail(rows))

\* plain INSERT without the UNIQUE constraint
RECURSIVE InsertPlain(_, _)
InsertPlain(table, rows) ==
    IF rows = <<>> THEN table ELSE InsertPlain(Append(table, Head(rows)), Tail(rows))

\* _read_header_row_only: the non-blank cells of the first row, or none
HeaderRow(file_rows) == IF file_rows = <<>> THEN <<>> ELSE Cells(file_rows[1])

\* the elements of a sequence
Range(f) == {f[k] : k \in DOMAIN f}

\* import_stations: the names of Fare.csv (first column and header), or, when
\* there are none, the header rows of Route.csv and Time.csv; numbered from 1
\* in sorted order
import_stations(d, data) ==
    LET fare_names == {Strip(n) : n \in data.fare} \ {<<>>}
        names == IF fare_names # {} THEN fare_names
                 ELSE Range(HeaderRow(data.route)) \cup Range(Cells(data.time.header))
        sorted == SortedNames(names)
        rows == [i \in 1..Len(sorted) |-> <<i, sorted[i]>>]
    IN  [d EXCEPT !.stations = InsertOrIgnore(@, rows)]

\* name_to_id of import_routes / import_time_pairs: a later row of stations
\* overwrites an earlier one of the same key; 0: no entry
name_to_id(d, key) ==
    LET ks == {k \in 1..Len(d.stations) : _name_key(d.stations[k][2]) = key}
    IN  IF ks = {} THEN 0 ELSE d.stations[CHOOSE k \in ks : \A j \in ks : j <= k][1]

id_of(d, nm) == name_to_id(d, _name_key(nm))

\* SELECT name FROM stations WHERE station_id = ?
name_of(d, id) ==
    LET k == CHOOSE k \in 1..Len(d.stations) : d.stations[k][1] = id
    IN  d.stations[k][2]

\* seq_edges of import_routes: both directions of every adjacent pair of a
\* Route.csv row whose two names are known
seq_edges(d, data) ==
    UNION {LET seq == Cells(data.route[r])
           IN  UNION {LET u == id_of(d, seq[k])
                          v == id_of(d, seq[k + 1])
                      IN  IF u = 0 \/ v = 0 THEN {} ELSE {<<u, v>>, <<v, u>>}
                      : k \in 1..(Len(seq) - 1)}
           : r \in 1..Len(data.route)}

\* A cell of Time.csv: num is whether float(cell) succeeds on a cell that is not
\* blank, "-", "NA" or "N/A"; val is its value, in whole minutes.
\* The (okey, dkey, t) triples the two readers of Time.csv go through, in order
RECURSIVE RowEntries(_, _, _, _)
RowEntries(okey, cells, dest_keys, j) ==
    IF j > Len(dest_keys) THEN <<>>
    ELSE (IF j <= Len(cells) /\ cells[j].num
          THEN << <<okey, dest_keys[j], cells[j].val>> >> ELSE <<>>)
         \o RowEntries(okey, cells, dest_keys, j + 1)

RECURSIVE TimeEntries(_, _, _)
TimeEntries(rows, dest_keys, r) ==
    IF r > Len(rows) THEN <<>>
    ELSE (IF Strip(rows[r].o) = <<>> THEN <<>>
          ELSE RowEntries(_name_key(Strip(rows[r].o)), rows[r].cells, dest_keys, 1))
         \o TimeEntries(rows, dest_keys, r + 1)

time_entries(data) ==
    LET dest_names == IF data.time.header = <<>> THEN <<>> ELSE Cells(Tail(data.time.header))
        dest_keys == [k \in 1..Len(dest_names) |-> _name_key(dest_names[k])]
    IN  TimeEntries(data.time.rows, dest_keys, 1)

\* time_map.get((okey, dkey)): the last entry written for the pair, or None
time_map(data, okey, dkey) ==
    LET es == time_entries(data)
        ks == {k \in 1..Len(es) : es[k][1] = okey /\ es[k][2] = dkey}
    IN  IF ks = {} THEN None ELSE Some(es[CHOOSE k \in ks : \A j \in ks : j <= k][3])

\* transfer_edges of import_routes: every ordered pair of distinct stations
\* whose names have the same group key
transfer_edges(d) ==
    LET n == Len(d.stations)
    IN  {<<d.stations[p[1]][1], d.stations[p[2]][1]>> :
            p \in {q \in (1..n) \X (1..n) :
                      q[1] # q[2] /\ _group_key(d.stations[q[1]][2]) =
                                     _group_key(d.stations[q[2]][2])}}

DEFAULT_MIN == 1

\* the weight import_routes stores for the sequence edge (u, v)
seq_weight(d, data, u, v) ==
    LET tmin == time_map(data, _name_key(name_of(d, u)), _name_key(name_of(d, v)))
    IN  IF tmin # None /\ tmin[1] > 0 THEN tmin[1] ELSE DEFAULT_MIN

\* the rows import_routes writes when seq_edges is not empty
route_rows(d, data) ==
    LET se == SortedPairs(seq_edges(d, data))
        te == SortedPairs(transfer_edges(d))
    IN  [k \in 1..Len(se) |-> <<se[k][1], se[k][2], seq_weight(d, data, se[k][1], se[k][2])>>]
        \o [k \in 1..Len(te) |-> <<te[k][1], te[k][2], 0>>]

\* the table write of import_routes
StoreRoutes(table, rows) == InsertOrReplace(table, rows)

\* import_routes: nothing is written when Route.csv yields no edge
import_routes(d, data) ==
    IF seq_edges(d, data) = {} THEN d
    ELSE [d EXCEPT !.routes = StoreRoutes(@, route_rows(d, data))]

\* import_time_pairs: the entries of Time.csv whose two names are known
import_time_pairs(d, data) ==
    LET es == time_entries(data)
        known == SelectSeq(es, LAMBDA e : name_to_id(d, e[1]) # 0 /\ name_to_id(d, e[2]) # 0)
        rows == [k \in 1..Len(known) |->
                    <<name_to_id(d, known[k][1]), name_to_id(d, known[k][2]), known[k][3]>>]
    IN  [d EXCEPT !.time_pairs = InsertOrReplace(@, rows)]

\* init_db: each table is imported only while it is empty
init_db(d, data) ==
    LET d1 == IF d.stations = <<>> THEN import_stations(d, data) ELSE d
        d2 == IF d1.routes = <<>> THEN import_routes(d1, data) ELSE d1
    IN  IF d2.time_pairs = <<>> THEN import_time_pairs(d2, data) ELSE d2

\* --------------------------------------------------- the stored route graph
\* rows of the routes table in rowid order: <<from_id, to_id, travel_time_min>>
routes == db.routes

\* the keys of id2name: the station ids of the stations table
StationIds == {db.stations[k][1] : k \in 1..Len(db.stations)}

\* adj[u] of get_route_shortest: (v, w) in row order, negative weights clamped
adj(u) ==
    LET rows == SelectSeq(routes, LAMBDA r : r[1] = u)
    IN  [k \in 1..Len(rows) |-> <<rows[k][2], Max(rows[k][3], 0)>>]

\* prev maps a station to -1 (not in the dict), 0 (None) or its predecessor
NoPrev == [s \in StationIds |-> -1]

\* the neighbour loop of a search that keeps a stack, not a queue
RECURSIVE bfs_scan_stack(_, _, _, _, _)
bfs_scan_stack(nbrs, k, u, q, prev) ==
    IF k > Len(nbrs) THEN [q |-> q, prev |-> prev]
    ELSE LET v == nbrs[k][1]
         IN  IF v \in StationIds /\ prev[v] = -1
             THEN bfs_scan_stack(nbrs, k + 1, u, <<v>> \o q, [prev EXCEPT ![v] = u])
             ELSE bfs_scan_stack(nbrs, k + 1, u, q, prev)

RECURSIVE bfs_scan(_, _, _, _, _)
bfs_scan(nbrs, k, u, q, prev) ==
    IF k > Len(nbrs) THEN [q |-> q, prev |-> prev]
    ELSE LET v == nbrs[k][1]
         IN  IF v \in StationIds /\ prev[v] = -1
             THEN bfs_scan(nbrs, k + 1, u, Append(q, v), [prev EXCEPT ![v] = u])
             ELSE bfs_scan(nbrs, k + 1, u, q, prev)

RECURSIVE bfs_loop(_, _, _)
bfs_loop(q, prev, destination_id) ==
    IF q = <<>> THEN prev
    ELSE LET u == Head(q)
         IN  IF u = destination_id THEN prev
             ELSE LET r == bfs_scan(adj(u), 1, u, Tail(q), prev)
                  IN  bfs_loop(r.q, r.prev, destination_id)

\* heappop of a heap that yields the greatest pair
HeapMax(pq) ==
    CHOOSE e \in pq : \A f \in pq : e[1] > f[1] \/ (e[1] = f[1] /\ e[2] >= f[2])

\* the heap of (d, u) pairs; heappop takes the least pair
HeapMin(pq) ==
    CHOOSE e \in pq : \A f \in pq : e[1] < f[1] \/ (e[1] = f[1] /\ e[2] <= f[2])

Inf == 1000000

RECURSIVE dij_scan(_, _, _, _, _, _, _)
dij_scan(nbrs, k, u, d, pq, dist, prev) ==
    IF k > Len(nbrs) THEN [pq |-> pq, dist |-> dist, prev |-> prev]
    ELSE LET v == nbrs[k][1]
             nd == d + nbrs[k][2]
         IN  IF v \in StationIds /\ nd < dist[v]
             THEN dij_scan(nbrs, k + 1, u, d, pq \cup {<<nd, v>>},
                           [dist EXCEPT ![v] = nd], [prev EXCEPT ![v] = u])
             ELSE dij_scan(nbrs, k + 1, u, d, pq, dist, prev)

\* the while loop of the time mode: prev and dist as they are when it ends
RECURSIVE dij_loop(_, _, _, _)
dij_loop(pq, dist, prev, destination_id) ==
    IF pq = {} THEN [prev |-> prev, dist |-> dist]
    ELSE LET e == HeapMin(pq)
             d == e[1]
             u == e[2]
             rest == pq \ {e}
         IN  IF u = destination_id THEN [prev |-> prev, dist |-> dist]
             ELSE IF d > dist[u] THEN dij_loop(rest, dist, prev, destination_id)
             ELSE LET r == dij_scan(adj(u), 1, u, d, rest, dist, prev)
                  IN  dij_loop(r.pq, r.dist, r.prev, destination_id)

\* path.append(x); x = prev[x] until None, then reverse
RECURSIVE walk_back(_, _)
walk_back(prev, x) ==
    IF x <= 0 THEN <<>> ELSE Append(walk_back(prev, prev[x]), x)

\* a lookup that finds no time_pairs row
no_direct_time(origin_id, destination_id) == None

\* get_direct_time: the total_min of time_pairs for (origin, destination)
get_direct_time(origin_id, destination_id) ==
    LET rows == SelectSeq(db.time_pairs,
                          LAMBDA r : r[1] = origin_id /\ r[2] = destination_id)
    IN  IF rows = <<>> THEN None ELSE Some(rows[1][3])

\* a collapse that keeps every name
keep_from(names, k, last_g) == SubSeq(names, k, Len(names))

\* _collapse_stops: a name is dropped when its group key is that of the name
\* kept last
RECURSIVE collapse_from(_, _, _)
collapse_from(names, k, last_g) ==
    IF k > Len(names) THEN <<>>
    ELSE LET g == _group_key(names[k])
         IN  IF g # last_g THEN <<names[k]>> \o collapse_from(names, k + 1, g)
             ELSE collapse_from(names, k + 1, last_g)

_collapse_stops(names) ==
    IF names = <<>> THEN <<>>
    ELSE <<names[1]>> \o collapse_from(names, 2, _group_key(names[1]))

\* a result that reports a path where there is none
FoundNothing ==
    [found |-> TRUE, path_ids |-> <<>>, path_names |-> <<>>, total_stops |-> 0,
     total_time |-> None]

\* the result of get_route_shortest when it is None
NotFound ==
    [found |-> FALSE, path_ids |-> <<>>, path_names |-> <<>>, total_stops |-> 0,
     total_time |-> None]

\* a result whose stop count is the number of names left, not one less
PathResultAllStops(path, total_time) ==
    LET names == [k \in 1..Len(path) |-> name_of(db, path[k])]
    IN  [found |-> TRUE, path_ids |-> path, path_names |-> names,
         total_stops |-> Len(_collapse_stops(names)), total_time |-> total_time]

\* the dict get_route_shortest returns for a path
PathResult(path, total_time) ==
    LET names == [k \in 1..Len(path) |-> name_of(db, path[k])]
    IN  [found |-> TRUE, path_ids |-> path, path_names |-> names,
         total_stops |-> Max(0, Len(_collapse_stops(names)) - 1),
         total_time |-> total_time]

\* get_route_shortest over the stored tables
get_route_shortest(origin_id, destination_id, mode) ==
    IF origin_id \notin StationIds \/ destination_id \notin StationIds THEN NotFound
    ELSE IF mode = "stops"
    THEN LET prev == bfs_loop(<<origin_id>>, [NoPrev EXCEPT ![origin_id] = 0],
                              destination_id)
         IN  IF prev[destination_id] = -1 THEN NotFound
             ELSE PathResult(walk_back(prev, destination_id), None)
    ELSE IF mode = "time"
    THEN LET r == dij_loop({<<0, origin_id>>},
                           [s \in StationIds |-> IF s = origin_id THEN 0 ELSE Inf],
                           [NoPrev EXCEPT ![origin_id] = 0], destination_id)
             total_sum == IF r.dist[destination_id] = Inf THEN 0 ELSE r.dist[destination_id]
             direct == get_direct_time(origin_id, destination_id)
         IN  IF r.prev[destination_id] = -1 /\ destination_id # origin_id THEN NotFound
             ELSE PathResult(walk_back(r.prev, destination_id),
                             IF direct # None THEN direct ELSE Some(total_sum))
    ELSE NotFound

\* SELECT travel_time_min FROM routes WHERE from_id=a AND to_id=b, then (b, a);
\* 0 stands for "no row"
edge_minutes(a, b) ==
    LET fw == SelectSeq(routes, LAMBDA r : r[1] = a /\ r[2] = b)
        bw == SelectSeq(routes, LAMBDA r : r[1] = b /\ r[2] = a)
    IN  IF fw # <<>> THEN fw[1][3] ELSE IF bw # <<>> THEN bw[1][3] ELSE 0

\* per_edge_seconds of simulate_train (whole seconds)
per_edge_seconds(path_ids, speed) ==
    [k \in 1..(Len(path_ids) - 1) |->
        LET t_min == edge_minutes(path_ids[k], path_ids[k + 1])
        IN  IF t_min <= 0 THEN DEFAULT_EDGE_SEC
            ELSE Max(MIN_EDGE_SEC, (t_min * 60) \div speed)]

\* publishers: a TrainThread or a ws_handler calling _broadcast
Pub == ({"t"} \X Inst) \cup ({"w"} \X Handles)
NoPub == <<"-", 0>>

NoThread ==
    [train_id |-> "", path |-> <<>>, edge_secs |-> <<>>, loop |-> FALSE,
     ping_interval |-> 0, stop |-> FALSE, pc |-> "none", idx |-> 0, t |-> 0]

IdleCaller ==
    [pc |-> "idle", train_id |-> "", path |-> <<>>, edge_secs |-> <<>>,
     loop |-> FALSE, route |-> FALSE, tgt |-> 0]

NoPass == [pos |-> 0, dead |-> {}, got |-> {}, seq |-> 0, stuck |-> FALSE]

\* ------------------------------------------------------- inputs of requests
Modes == {"stops", "time"}
Speeds == {-1, 30}              \* the speed field of a request; 0 reads as 1.0
SecValues == {2}                \* entries of a per_edge_seconds array
TimeValues == {0, 3}            \* minutes in a Time.csv cell
PingIntervals == {4}            \* the ping_interval field, seconds

\* arrays of at most n entries
SeqsUpTo(S, n) == UNION {[1..k -> S] : k \in 0..n}

\* the path_names of a direct start_train call (station ids stand for names)
\* of 1 .. NumStations stations, or there and back (two segments)
DirectPaths == {[k \in 1..n |-> k] : n \in 1..NumStations}
               \cup {<<1, NumStations, 1>>}

\* What the start requests of one run ask for: a POST /simulate_train body
\* (from / to 0: a name that is not in the stations table), or the arguments of
\* a direct start_train call. The train id varies per request.
Requests ==
    [kind : {"route"}, from : 0..NumStations, to : 0..NumStations,
     mode : Modes, speed : Speeds, path : {<<>>}, secs : {<<>>}, loop : BOOLEAN]
    \cup
    [kind : {"direct"}, from : {0}, to : {0}, mode : {"stops"}, speed : {0},
     path : DirectPaths, secs : SeqsUpTo(SecValues, NumStations), loop : BOOLEAN]

\* The loads a run is checked under. "race": request threads race on one train
\* id, no websocket connected. "serial": one request thread works on all train
\* ids. "fanout": one request thread drives one train (a looping one through
\* simulate_train, or a one-way one through start_train) while websockets
\* connect, fail and hang, and the first nfeeds of them send train_update
\* messages (as data_generator.py does).
Loads ==
    [load : {"race"}, ncallers : {NumCallers}, ninst : {MaxInst},
     ids : {{"T1"}}, nhandles : {0}, nfeeds : {0},
     req : {r \in Requests : r.kind = "route" => r.from <= 1}]
    \cup
    [load : {"serial"}, ncallers : {1}, ninst : {MaxInst},
     ids : {TrainIds}, nhandles : {0}, nfeeds : {0},
     req : {r \in Requests : r.kind = "route" /\ r.from = 1 /\ r.to = NumStations
                              /\ r.mode = "stops" /\ r.speed > 0}]
    \cup
    [load : {"fanout"}, ncallers : {1}, ninst : {1},
     ids : {{"T1"}}, nhandles : {NumHandles}, nfeeds : {1},
     req : {r \in Requests :
               \/ /\ r.kind = "route" /\ r.from = 1 /\ r.to = NumStations
                  /\ r.mode = "time" /\ r.speed > 0 /\ r.loop
               \/ /\ r.kind = "direct" /\ Len(r.path) = NumStations
                  /\ Len(r.secs) = NumStations - 1 /\ ~r.loop}]

\* The data directory of the runs of the realtime core: NumStations stations
\* named a, aa, aaa, ..., one Route.csv row joining the first two, no Time.csv.
StationName(k) == [j \in 1..k |-> "a"]
NoTimeFile == [header |-> <<>>, rows |-> <<>>]
SpecDataDir ==
    [fare |-> {StationName(k) : k \in 1..NumStations},
     route |-> << <<StationName(1), StationName(2)>> >>,
     time |-> NoTimeFile]

\* no database call made yet
NoOut == [op |-> "none"]

Init ==
    /\ trains = [id \in TrainIds |-> 0]
    /\ threads = [i \in Inst |-> NoThread]
    /\ callers = [c \in Callers |-> IdleCaller]
    /\ clients = <<>>
    /\ lock = NoPub
    /\ bc = [p \in Pub |-> NoPass]
    /\ ws = [h \in Handles |-> "new"]
    /\ pubCount = 0
    /\ recv = [h \in Handles |-> <<>>]
    /\ dropped = {}
    /\ env \in Loads
    /\ data_dir = SpecDataDir
    /\ db = init_db(EmptyDb, SpecDataDir)
    /\ out = NoOut

\* request threads are interchangeable: the idle one of least index takes the call
MayCall(c) ==
    /\ c <= env.ncallers
    /\ callers[c].pc = "idle"
    /\ \A d \in Callers : d < c => callers[d].pc # "idle"

\* TrainThread objects constructed so far, and calls that will construct one
Constructed == {i \in Inst : threads[i].pc # "none"}
Constructing == {c \in Callers : callers[c].pc \in {"s_check", "s_get", "s_stop", "s_store"}}
CanConstruct == Cardinality(Constructed) + Cardinality(Constructing) < env.ninst

\* ------------------------------------------------- routes.py simulate_train
\* from_id / to_id 0: the name is not in the stations table
simulate_train(c, from_id, to_id, mode, train_id, speed, loop_flag) ==
    /\ MayCall(c)
    /\ CanConstruct
    /\ LET res == get_route_shortest(from_id, to_id, mode)
           path_ids == res.path_ids
       IN  callers' = [callers EXCEPT ![c] =
              IF speed <= 0 \/ from_id = 0 \/ to_id = 0 \/ ~res.found
              THEN IdleCaller
              ELSE [pc |-> "s_check", train_id |-> train_id, path |-> path_ids,
                    edge_secs |-> per_edge_seconds(path_ids, speed),
                    loop |-> loop_flag, route |-> TRUE, tgt |-> 0]]
    /\ UNCHANGED <<trains, threads, clients, lock, bc, ws, pubCount, recv, dropped, env, data_dir, db, out>>

\* a call of realtime.start_train with arguments of the caller's choosing
start_train(c, train_id, path_names, per_edge, loop_flag) ==
    /\ MayCall(c)
    /\ CanConstruct
    /\ callers' = [callers EXCEPT ![c] =
          [pc |-> "s_check", train_id |-> train_id, path |-> path_names,
           edge_secs |-> per_edge, loop |-> loop_flag, route |-> FALSE, tgt |-> 0]]
    /\ UNCHANGED <<trains, threads, clients, lock, bc, ws, pubCount, recv, dropped, env, data_dir, db, out>>

\* line 122: if train_id in _trains
StartCheck(c) ==
    /\ callers[c].pc = "s_check"
    /\ callers' = [callers EXCEPT ![c].pc =
          IF trains[callers[c].train_id] # 0 THEN "s_get" ELSE "s_store"]
    /\ UNCHANGED <<trains, threads, clients, lock, bc, ws, pubCount, recv, dropped, env, data_dir, db, out>>

\* line 124: _trains[train_id]; a KeyError is swallowed by the except
StartGet(c) ==
    /\ callers[c].pc = "s_get"
    /\ LET old == trains[callers[c].train_id]
       IN  callers' = [callers EXCEPT ![c].pc = IF old # 0 THEN "s_stop" ELSE "s_store",
                                      ![c].tgt = old]
    /\ UNCHANGED <<trains, threads, clients, lock, bc, ws, pubCount, recv, dropped, env, data_dir, db, out>>

\* line 124: .stop() sets the Event of the old thread
StartStopOld(c) ==
    /\ callers[c].pc = "s_stop"
    /\ threads' = [threads EXCEPT ![callers[c].tgt].stop = TRUE]
    /\ callers' = [callers EXCEPT ![c].pc = "s_store", ![c].tgt = 0]
    /\ UNCHANGED <<trains, clients, lock, bc, ws, pubCount, recv, dropped, env, data_dir, db, out>>

NewThread(train_id, path_names, per_edge, loop_flag, ping) ==
    [train_id |-> train_id, path |-> path_names, edge_secs |-> per_edge,
     loop |-> loop_flag, ping_interval |-> ping, stop |-> FALSE,
     pc |-> "new", idx |-> 0, t |-> 0]

\* the entry start_train writes for train_id
Registered(old, new) == new

\* lines 127-128: t = TrainThread(...); _trains[train_id] = t
StartStore(c) ==
    /\ callers[c].pc = "s_store"
    /\ \E ping \in PingIntervals :
         LET i == CHOOSE j \in Inst : threads[j].pc = "none" /\
                      \A k \in Inst : threads[k].pc = "none" => j <= k
             a == callers[c]
         IN  /\ threads' = [threads EXCEPT ![i] =
                    NewThread(a.train_id, a.path, a.edge_secs, a.loop, ping)]
             /\ trains' = [trains EXCEPT ![a.train_id] = Registered(@, i)]
             /\ callers' = [callers EXCEPT ![c].pc = "s_start", ![c].tgt = i]
    /\ UNCHANGED <<clients, lock, bc, ws, pubCount, recv, dropped, env, data_dir, db, out>>

\* line 129: t.start()
StartThread(c) ==
    /\ callers[c].pc = "s_start"
    /\ threads' = [threads EXCEPT ![callers[c].tgt].pc = "started"]
    /\ callers' = [callers EXCEPT ![c] = IdleCaller]
    /\ UNCHANGED <<trains, clients, lock, bc, ws, pubCount, recv, dropped, env, data_dir, db, out>>

\* ------------------------------------------------------------- stop_train
\* routes.py trains_stop -> stop_train(train_id); line 132: if train_id in _trains
stop_train(c, train_id) ==
    /\ MayCall(c)
    /\ callers' = [callers EXCEPT ![c] =
          IF trains[train_id] # 0
          THEN [IdleCaller EXCEPT !.pc = "p_get", !.train_id = train_id]
          ELSE [IdleCaller EXCEPT !.pc = "ret_false", !.train_id = train_id]]
    /\ UNCHANGED <<trains, threads, clients, lock, bc, ws, pubCount, recv, dropped, env, data_dir, db, out>>

\* line 134: _trains[train_id]; a KeyError leaves through the finally
StopGet(c) ==
    /\ callers[c].pc = "p_get"
    /\ LET cur == trains[callers[c].train_id]
       IN  callers' = [callers EXCEPT ![c].pc = IF cur # 0 THEN "p_stop" ELSE "p_fail",
                                      ![c].tgt = cur]
    /\ UNCHANGED <<trains, threads, clients, lock, bc, ws, pubCount, recv, dropped, env, data_dir, db, out>>

\* line 134: .stop()
StopSet(c) ==
    /\ callers[c].pc = "p_stop"
    /\ threads' = [threads EXCEPT ![callers[c].tgt].stop = TRUE]
    /\ callers' = [callers EXCEPT ![c].pc = "p_pop", ![c].tgt = 0]
    /\ UNCHANGED <<trains, clients, lock, bc, ws, pubCount, recv, dropped, env, data_dir, db, out>>

\* lines 135-137: finally: _trains.pop(train_id, None), on the way to return
\* True or with the KeyError of line 134, which then reaches the caller
StopPop(c) ==
    /\ callers[c].pc \in {"p_pop", "p_fail"}
    /\ trains' = [trains EXCEPT ![callers[c].train_id] = 0]
    /\ callers' = [callers EXCEPT ![c].pc =
          IF callers[c].pc = "p_pop" THEN "ret_true" ELSE "raise_KeyError"]
    /\ UNCHANGED <<threads, clients, lock, bc, ws, pubCount, recv, dropped, env, data_dir, db, out>>

\* routes.py trains_stop: the result of stop_train is sent back (ok = True /
\* False); a KeyError fails the request
Return(c) ==
    /\ callers[c].pc \in {"ret_true", "ret_false", "raise_KeyError"}
    /\ callers' = [callers EXCEPT ![c] = IdleCaller]
    /\ UNCHANGED <<trains, threads, clients, lock, bc, ws, pubCount, recv, dropped, env, data_dir, db, out>>

\* list_trains(): list(_trains.keys())
list_trains == {id \in TrainIds : trains[id] # 0}

\* ------------------------------------------------------ TrainThread.run
\* Dur without the fallback for a segment that has no entry in edge_secs
DurNoDefault(th) ==
    Max(MIN_EDGE_SEC, IF th.idx <= Len(th.edge_secs) THEN th.edge_secs[th.idx] ELSE 0)

\* line 94: dur of segment idx (idx counts from 1 here, from 0 in the source)
Dur(th) ==
    Max(MIN_EDGE_SEC,
        IF th.idx <= Len(th.edge_secs) THEN th.edge_secs[th.idx] ELSE DEFAULT_EDGE_SEC)

\* progress = t / dur, without the bound of 1.0
ProgressUnpinned(th) == <<th.t, Dur(th)>>

\* line 98: progress = min(1.0, t / dur), as the pair <<numerator, denominator>>
Progress(th) == <<Min(th.t, Dur(th)), Dur(th)>>

\* lines 91-95 and 109-110: the for loop moves to segment k, or is exhausted
AdvanceFor(th, k) ==
    IF k <= Len(th.path) - 1
    THEN [th EXCEPT !.pc = "inner", !.idx = k, !.t = 0]
    ELSE [th EXCEPT !.pc = IF th.loop THEN "outer" ELSE "finally", !.idx = 0, !.t = 0]

\* line 90: while not self._stop.is_set()
CheckOuter(i) ==
    /\ threads[i].pc = "outer"
    /\ threads' = [threads EXCEPT ![i] =
          IF threads[i].stop THEN [threads[i] EXCEPT !.pc = "finally"]
          ELSE AdvanceFor(threads[i], 1)]
    /\ UNCHANGED <<trains, callers, clients, lock, bc, ws, pubCount, recv, dropped, env, data_dir, db, out>>

\* line 96, first test in a segment: while not self._stop.is_set(); t is about 0
CheckInner(i) ==
    /\ threads[i].pc = "inner"
    /\ threads' = [threads EXCEPT ![i] =
          IF threads[i].stop THEN AdvanceFor(threads[i], threads[i].idx + 1)
          ELSE [threads[i] EXCEPT !.pc = "tick"]]
    /\ UNCHANGED <<trains, callers, clients, lock, bc, ws, pubCount, recv, dropped, env, data_dir, db, out>>

\* lines 108, 96-97: time.sleep(ping_interval) returns after ping_interval or
\* later (possibly past the end of the segment), then the while test and
\* t = time.time() - start
Sleep(i) ==
    /\ threads[i].pc = "sleep"
    /\ \E t2 \in {threads[i].t + threads[i].ping_interval,
                  Max(threads[i].t + threads[i].ping_interval, Dur(threads[i]))} :
         threads' = [threads EXCEPT ![i] =
            IF threads[i].stop THEN AdvanceFor(threads[i], threads[i].idx + 1)
            ELSE [threads[i] EXCEPT !.pc = "tick", !.t = t2]]
    /\ UNCHANGED <<trains, callers, clients, lock, bc, ws, pubCount, recv, dropped, env, data_dir, db, out>>

\* where run() continues after a _broadcast call returns
AfterBroadcast(th) ==
    CASE th.pc = "started" -> [th EXCEPT !.pc = "outer"]
      [] th.pc = "tick" ->
            IF th.t >= Dur(th) THEN AdvanceFor(th, th.idx + 1)
            ELSE [th EXCEPT !.pc = "sleep"]
      [] th.pc = "finally" -> [th EXCEPT !.pc = "done", !.idx = 0, !.t = 0]

\* the event a publisher hands to _broadcast
Event(p) ==
    IF p[1] = "w" THEN <<"train_update">>
    ELSE LET th == threads[p[2]]
         IN  CASE th.pc = "started" -> <<"train_status", th.train_id, "started">>
               [] th.pc = "finally" -> <<"train_status", th.train_id, "stopped">>
               [] OTHER -> <<"train_tick", th.train_id, th.path[th.idx],
                             th.path[th.idx + 1], Progress(th)>>

\* ---------------------------------------------------------------- _broadcast
InBroadcast(p) ==
    IF p[1] = "t" THEN threads[p[2]].pc \in {"started", "tick", "finally"}
    ELSE ws[p[2]] = "bcast"

\* _broadcast entered without taking _clients_lock
LockIgnored(p) == TRUE

\* with _clients_lock: the lock can be taken
LockFree(p) == lock = NoPub

\* what w.send(data) can do: return, raise, or never return
SendOutcomes == {"ok", "raise", "hang"}

\* the exception of send leaves the for loop: the remaining clients are skipped
AfterRaiseAbort(b, w) == [b EXCEPT !.pos = Len(clients) + 1, !.dead = @ \cup {w}]

\* the for loop of _broadcast after send to w raised: dead.append(w), next client
AfterRaise(b, w) == [b EXCEPT !.pos = @ + 1, !.dead = @ \cup {w}]

\* lines 68-72: _clients.remove(w) for w in dead
RemoveDead(list, dead) == SelectSeq(list, LAMBDA w : w \notin dead)

\* line 61: with _clients_lock (acquire), dead = []
BroadcastAcquire(p) ==
    /\ InBroadcast(p)
    /\ bc[p].pos = 0
    /\ LockFree(p)
    /\ lock' = p
    /\ pubCount' = Min(MaxLog, pubCount + 1)
    /\ bc' = [bc EXCEPT ![p] = [NoPass EXCEPT !.pos = 1,
                 !.seq = IF pubCount < MaxLog THEN pubCount + 1 ELSE 0]]
    /\ UNCHANGED <<trains, threads, callers, clients, ws, recv, dropped, env, data_dir, db, out>>

\* lines 63-67: w.send(data) for the next w of _clients
BroadcastSend(p, outcome) ==
    /\ bc[p].pos \in 1..Len(clients)
    /\ ~bc[p].stuck
    /\ LET w == clients[bc[p].pos]
       IN  CASE outcome = "ok" ->
                  /\ bc' = [bc EXCEPT ![p].pos = @ + 1, ![p].got = @ \cup {w}]
                  /\ recv' = IF bc[p].seq > 0
                              THEN [recv EXCEPT ![w] = Append(@, bc[p].seq)]
                              ELSE recv
             [] outcome = "raise" ->
                  /\ bc' = [bc EXCEPT ![p] = AfterRaise(@, w)]
                  /\ UNCHANGED recv
             [] outcome = "hang" ->
                  /\ bc' = [bc EXCEPT ![p].stuck = TRUE]
                  /\ UNCHANGED recv
    /\ UNCHANGED <<trains, threads, callers, clients, lock, ws, pubCount, dropped, env, data_dir, db, out>>

\* lines 68-72 and the end of the with block: drop the dead, release, return
BroadcastFinish(p) ==
    /\ bc[p].pos > Len(clients)
    /\ ~bc[p].stuck
    /\ clients' = RemoveDead(clients, bc[p].dead)
    /\ dropped' = dropped \cup bc[p].dead
    /\ lock' = IF lock = p THEN NoPub ELSE lock
    /\ bc' = [bc EXCEPT ![p] = NoPass]
    /\ IF p[1] = "t"
       THEN /\ threads' = [threads EXCEPT ![p[2]] = AfterBroadcast(@)]
            /\ UNCHANGED ws
       ELSE /\ ws' = [ws EXCEPT ![p[2]] = "recv"]
            /\ UNCHANGED threads
    /\ UNCHANGED <<trains, callers, pubCount, recv, env, data_dir, db, out>>

\* ---------------------------------------------------------------- ws_handler
\* lines 27-28: with _clients_lock: _clients.append(ws)
Connect(h) ==
    /\ ws[h] = "new"
    /\ h <= env.nhandles
    /\ \A g \in Handles : g < h => ws[g] # "new"
    /\ lock = NoPub
    /\ clients' = Append(clients, h)
    /\ ws' = [ws EXCEPT ![h] = "hello"]
    /\ UNCHANGED <<trains, threads, callers, lock, bc, pubCount, recv, dropped, env, data_dir, db, out>>

\* line 31: ws.send(hello), outside the lock
Hello(h, outcome) ==
    /\ ws[h] = "hello"
    /\ ws' = [ws EXCEPT ![h] = CASE outcome = "ok" -> "recv"
                                 [] outcome = "raise" -> "finally"
                                 [] outcome = "hang" -> "stuck"]
    /\ UNCHANGED <<trains, threads, callers, clients, lock, bc, pubCount, recv, dropped, env, data_dir, db, out>>

\* lines 34-42: a train_update message arrives: _broadcast(js)
ReceiveUpdate(h) ==
    /\ ws[h] = "recv"
    /\ h <= env.nfeeds
    /\ ws' = [ws EXCEPT ![h] = "bcast"]
    /\ UNCHANGED <<trains, threads, callers, clients, lock, bc, pubCount, recv, dropped, env, data_dir, db, out>>

\* lines 43-48: any other message is echoed with ws.send(msg)
ReceiveEcho(h, outcome) ==
    /\ ws[h] = "recv"
    /\ ws' = [ws EXCEPT ![h] = CASE outcome = "ok" -> "recv"
                                 [] outcome = "raise" -> "finally"
                                 [] outcome = "hang" -> "stuck"]
    /\ UNCHANGED <<trains, threads, callers, clients, lock, bc, pubCount, recv, dropped, env, data_dir, db, out>>

\* lines 34-36: receive() returns None (or raises): leave the loop
ReceiveClose(h) ==
    /\ ws[h] = "recv"
    /\ ws' = [ws EXCEPT ![h] = "finally"]
    /\ UNCHANGED <<trains, threads, callers, clients, lock, bc, pubCount, recv, dropped, env, data_dir, db, out>>

\* lines 49-53: with _clients_lock: if ws in _clients: _clients.remove(ws)
Unregister(h) ==
    /\ ws[h] = "finally"
    /\ lock = NoPub
    /\ clients' = SelectSeq(clients, LAMBDA w : w # h)
    /\ ws' = [ws EXCEPT ![h] = "closed"]
    /\ UNCHANGED <<trains, threads, callers, lock, bc, pubCount, recv, dropped, env, data_dir, db, out>>

\* ------------------------------------------------------------ specification
CallerStep(c) ==
    \/ \E id \in env.ids :
          /\ env.req.kind = "route"
          /\ simulate_train(c, env.req.from, env.req.to, env.req.mode, id,
                            env.req.speed, env.req.loop)
    \/ \E id \in env.ids :
          /\ env.req.kind = "direct"
          /\ start_train(c, id, env.req.path, env.req.secs, env.req.loop)
    \/ StartCheck(c) \/ StartGet(c) \/ StartStopOld(c) \/ StartStore(c) \/ StartThread(c)
    \/ \E id \in env.ids : stop_train(c, id)
    \/ StopGet(c) \/ StopSet(c) \/ StopPop(c)
    \/ Return(c)

ThreadStep(i) == CheckOuter(i) \/ CheckInner(i) \/ Sleep(i)

BroadcastStep(p) ==
    \/ BroadcastAcquire(p)
    \/ \E o \in SendOutcomes : BroadcastSend(p, o)
    \/ BroadcastFinish(p)

HandlerStep(h) ==
    \/ Connect(h)
    \/ \E o \in SendOutcomes : Hello(h, o)
    \/ ReceiveUpdate(h)
    \/ \E o \in SendOutcomes : ReceiveEcho(h, o)
    \/ ReceiveClose(h)
    \/ Unregister(h)

Next ==
    \/ \E c \in Callers : CallerStep(c)
    \/ \E i \in Inst : ThreadStep(i)
    \/ \E p \in Pub : BroadcastStep(p)
    \/ \E h \in Handles : HandlerStep(h)

Spec == Init /\ [][Next]_vars

\* Fairness of the thread scheduler: a running TrainThread, a _broadcast call
\* and a request inside start_train / stop_train are not starved, and a thread
\* waiting for _clients_lock gets it if it is released again and again.
Fairness ==
    /\ \A i \in Inst : WF_vars(ThreadStep(i))
    /\ \A p \in Pub : SF_vars(BroadcastStep(p))
    /\ \A c \in Callers :
          WF_vars(StartCheck(c) \/ StartGet(c) \/ StartStopOld(c) \/ StartStore(c)
                  \/ StartThread(c) \/ StopGet(c) \/ StopSet(c) \/ StopPop(c) \/ Return(c))
    /\ \A h \in Handles : SF_vars(Unregister(h))

\* the runs with one request thread (the serial and fanout loads) under that
\* scheduler
FairInit == Init /\ env.ncallers = 1
FairSpec == FairInit /\ [][Next]_vars /\ Fairness

\* ------------------------------------------------ the store: build and query
\* station names of the data directories
NameUniverse == {<<"A">>, <<"a">>, <<"a", "(", "b", ")">>, <<"b">>}

\* the names of the data directories whose graph is queried
GraphNames == NameUniverse \ {<<"A">>}

\* Route.csv files of at most MaxRows rows of at most n names each
RouteFiles(S, n) == SeqsUpTo(SeqsUpTo(S, n), MaxRows)

\* cells of Time.csv: a number of minutes, or a cell that holds none
TimeCells == [num : {TRUE}, val : TimeValues] \cup [num : {FALSE}, val : {0}]

\* the first cell of the header row of Time.csv
Corner == <<"B", "B">>

\* Time.csv files: none, or a header of a corner cell and one destination over
\* one row of one cell
TimeFiles(S) ==
    {NoTimeFile} \cup
    {[header |-> <<Corner, dn>>, rows |-> <<[o |-> on, cells |-> <<c>>]>>] :
        dn \in S, on \in S, c \in TimeCells}

\* five names of five groups, and the Route.csv rows that join them in a ring
\* starting and ending at the first
RingNames == {<<"a">>, <<"b">>, <<"a", "a">>, <<"a", "b">>, <<"b", "a">>}
RingRows ==
    {row \in [1..6 -> RingNames] :
        /\ row[1] = <<"a">> /\ row[6] = <<"a">>
        /\ \A i, j \in 1..5 : i # j => row[i] # row[j]}

\* Time.csv files of a ring: none, or one cell holding a number
RingTimeFiles ==
    {NoTimeFile} \cup
    {[header |-> <<Corner, dn>>, rows |-> <<[o |-> on, cells |-> <<c>>]>>] :
        dn \in RingNames, on \in RingNames, c \in [num : {TRUE}, val : TimeValues \ {0}]}

\* The data directories a store is built from. "names": any choice of Fare.csv
\* names, short Route.csv rows, Time.csv absent or present. "graph": three
\* stations, two of them of one group, Route.csv rows of up to MaxRowLen names.
\* "ring": five stations joined in a ring, one leg of which may take longer.
DataDirs ==
    [fare : SUBSET NameUniverse, route : RouteFiles(NameUniverse, 2),
     time : {NoTimeFile,
             [header |-> <<Corner, <<"b">>>>, rows |-> <<[o |-> <<"a">>, cells |-> <<>>]>>]}]
    \cup
    [fare : {GraphNames}, route : RouteFiles(GraphNames, MaxRowLen),
     time : TimeFiles(GraphNames)]
    \cup
    [fare : {RingNames}, route : {<<row>> : row \in RingRows}, time : RingTimeFiles]

\* no request thread and no websocket: the load of a run that only builds and
\* queries the store
NoLoad ==
    [load |-> "none", ncallers |-> 0, ninst |-> 0, ids |-> {}, nhandles |-> 0,
     nfeeds |-> 0, req |-> CHOOSE r \in Requests : r.kind = "direct" /\ r.path = <<1>>
                                                    /\ r.secs = <<>> /\ ~r.loop]

\* before init_db: new tables, some data directory
DbInit ==
    /\ trains = [id \in TrainIds |-> 0]
    /\ threads = [i \in Inst |-> NoThread]
    /\ callers = [c \in Callers |-> IdleCaller]
    /\ clients = <<>>
    /\ lock = NoPub
    /\ bc = [p \in Pub |-> NoPass]
    /\ ws = [h \in Handles |-> "new"]
    /\ pubCount = 0
    /\ recv = [h \in Handles |-> <<>>]
    /\ dropped = {}
    /\ env = NoLoad
    /\ data_dir \in DataDirs
    /\ db = EmptyDb
    /\ out = NoOut

\* init_db has run
Built == out.op # "none"

\* app start: init_db(db_path, data_dir); it may run again over the built store
InitDb ==
    /\ db' = init_db(db, data_dir)
    /\ out' = [op |-> "init_db"]
    /\ UNCHANGED <<trains, threads, callers, clients, lock, bc, ws, pubCount, recv,
                   dropped, env, data_dir>>

\* import_stations run again over the built store
ImportStations ==
    /\ Built
    /\ db' = import_stations(db, data_dir)
    /\ out' = [op |-> "import_stations"]
    /\ UNCHANGED <<trains, threads, callers, clients, lock, bc, ws, pubCount, recv,
                   dropped, env, data_dir>>

\* import_routes run again over the built store
ImportRoutes ==
    /\ Built
    /\ db' = import_routes(db, data_dir)
    /\ out' = [op |-> "import_routes"]
    /\ UNCHANGED <<trains, threads, callers, clients, lock, bc, ws, pubCount, recv,
                   dropped, env, data_dir>>

\* ids a query may name: the stored ones, 0 and an id past the last
QueryIds == 0..(Len(db.stations) + 1)

\* a route request is being served: get_route_shortest has returned to it
InQuery == out.op = "get_route_shortest"

\* a route request of routes.py calls get_route_shortest(conn, origin_id,
\* destination_id, mode) on the built store
Query(origin_id, destination_id, mode) ==
    /\ Built
    /\ ~InQuery
    /\ out' = [op |-> "get_route_shortest", origin_id |-> origin_id,
               destination_id |-> destination_id, mode |-> mode,
               res |-> get_route_shortest(origin_id, destination_id, mode)]
    /\ UNCHANGED <<trains, threads, callers, clients, lock, bc, ws, pubCount, recv,
                   dropped, env, data_dir, db>>

\* the route request sends its response
Answer ==
    /\ InQuery
    /\ out' = [op |-> "answered"]
    /\ UNCHANGED <<trains, threads, callers, clients, lock, bc, ws, pubCount, recv,
                   dropped, env, data_dir, db>>

DbNext ==
    \/ InitDb
    \/ ImportStations
    \/ ImportRoutes
    \/ \E o \in QueryIds, d \in QueryIds, mode \in Modes : Query(o, d, mode)
    \/ Answer

DbSpec == DbInit /\ [][DbNext]_vars

\* ------------------------------------------------------ the keys of raw names
\* characters of raw names, and the raw names of at most MaxNameLen characters
KeyChars == {" ", "(", ")", "A", "a", "U+2019"}
RawNames == SeqsUpTo(KeyChars, MaxNameLen)

\* a trailing parenthesised suffix: "(", at most MaxSuffixLen characters, ")",
\* with or without a space before it
Suffixes ==
    {lead \o <<"(">> \o inner \o <<")">> :
        lead \in {<<>>, <<" ">>}, inner \in SeqsUpTo(KeyChars, MaxSuffixLen)}

\* two raw names, the second being the first with a suffix, and no key taken yet
KeyInit ==
    /\ trains = [id \in TrainIds |-> 0]
    /\ threads = [i \in Inst |-> NoThread]
    /\ callers = [c \in Callers |-> IdleCaller]
    /\ clients = <<>>
    /\ lock = NoPub
    /\ bc = [p \in Pub |-> NoPass]
    /\ ws = [h \in Handles |-> "new"]
    /\ pubCount = 0
    /\ recv = [h \in Handles |-> <<>>]
    /\ dropped = {}
    /\ env = NoLoad
    /\ data_dir = SpecDataDir
    /\ db = EmptyDb
    /\ out \in {[op |-> "names", a |-> a, b |-> a \o sfx] : a \in RawNames, sfx \in Suffixes}

\* _name_key and _group_key are applied to both names
TakeKeys ==
    /\ out.op = "names"
    /\ out' = [op |-> "keys", a |-> out.a, b |-> out.b,
               strict_a |-> _name_key(out.a), strict_b |-> _name_key(out.b),
               group_a |-> _group_key(out.a), group_b |-> _group_key(out.b)]
    /\ UNCHANGED <<trains, threads, callers, clients, lock, bc, ws, pubCount, recv,
                   dropped, env, data_dir, db>>

KeyNext == TakeKeys

KeySpec == KeyInit /\ [][KeyNext]_vars

\* ------------------------------------------------------------------ claims
\* the thread of a TrainThread object is started and has not left run()
Alive(i) == threads[i].pc \notin {"none", "new", "done"}

\* the instances of one train id
InstancesOf(id) == {i \in Inst : threads[i].pc # "none" /\ threads[i].train_id = id}

\* C1: every train id has at most one simulation instance that is started and
\* has not yet exited, whatever the order of start and stop calls.
C1_OneActiveInstance ==
    \A id \in TrainIds : Cardinality({i \in InstancesOf(id) : Alive(i)}) <= 1

\* C2: whenever no start or stop call is in progress, the registry and the
\* instances are as some serial order of the calls made leaves them: the train
\* id is registered exactly when it has one instance that was not cancelled,
\* and that instance is the registered one.
C2_SerialOutcome ==
    (\A c \in Callers : callers[c].pc = "idle") =>
        \A id \in TrainIds :
            LET kept == {i \in InstancesOf(id) : ~threads[i].stop}
            IN  IF trains[id] = 0 THEN kept = {} ELSE kept = {trains[id]}

\* C4: stop(id) returns true exactly when an instance is registered under id
\* at the time of the call, and then id is absent from the registry afterwards;
\* otherwise it returns false and changes no entry; no step of stop changes
\* the entry of another id.
C4_StopContract ==
    [][\A c \in Callers :
         LET a == callers[c]
             b == callers'[c]
         IN  /\ (a.pc = "idle" /\ b.pc = "ret_false") =>
                    (trains[b.train_id] = 0 /\ trains' = trains)
             /\ (a.pc = "idle" /\ b.pc = "p_get") => trains[b.train_id] # 0
             /\ (a.pc \in {"p_get", "p_stop"} /\ b # a) =>
                    (b.pc \in {"p_stop", "p_pop"} /\ trains' = trains)
             /\ (a.pc = "p_pop" /\ b # a) =>
                    /\ b.pc = "ret_true"
                    /\ trains'[a.train_id] = 0
                    /\ \A id \in TrainIds \ {a.train_id} : trains'[id] = trains[id]
      ]_vars

\* the clients a pass has already sent to, or tried to
Served(p) == {clients[k] : k \in 1..Min(bc[p].pos - 1, Len(clients))}

\* C5: a send that raises is contained. The pass goes on to every other
\* client, so each client the pass has reached either received the event or is
\* marked dead; the dead stay in the client list only until the pass that
\* marked them ends, and once removed they are in no later pass.
C5_FailureContained ==
    /\ \A p \in Pub : bc[p].pos > 0 =>
          /\ Served(p) = bc[p].got \cup bc[p].dead
          /\ bc[p].got \cap bc[p].dead = {}
          /\ bc[p].dead \cap dropped = {}
    /\ dropped \cap Range(clients) = {}
    /\ \A w \in Handles :
          (w \in Range(clients) /\ \E p \in Pub : w \in bc[p].dead) => lock # NoPub

\* C5 witness: a websocket was dropped as dead, and a later pass still
\* delivered to another websocket.
C5_Witness ==
    \E w \in dropped, v \in Range(clients) :
        /\ Len(recv[v]) = 2
        /\ recv[w] = <<>>

\* C6: the recorded passes each websocket received are in the order in which
\* the passes were published.
C6_OrderPerHandle ==
    \A h \in Handles :
        \A j, k \in 1..Len(recv[h]) : j < k => recv[h][j] < recv[h][k]

\* C6 witness: a websocket received two passes while a train thread and a
\* ws_handler are both inside _broadcast.
C6_Witness ==
    \E h \in Handles :
        /\ Len(recv[h]) = 2
        /\ \E i \in Inst : InBroadcast(<<"t", i>>)
        /\ \E g \in Handles : InBroadcast(<<"w", g>>)

\* the arrays of a TrainThread do not match: len(edge_secs) # len(path) - 1
Mismatched(th) == th.pc # "none" /\ Len(th.edge_secs) # Len(th.path) - 1

ExpectedDur(th) ==
    IF th.idx <= Len(th.edge_secs) THEN Max(1, th.edge_secs[th.idx]) ELSE 8

C8_ShortPathRejected ==
    env.req.kind = "route" =>
        /\ \A c \in Callers : callers[c].pc # "idle" /\ callers[c].path # <<>>
                                => Len(callers[c].path) >= 2
        /\ \A i \in Inst : threads[i].pc # "none" => Len(threads[i].path) >= 2

\* C9: once a simulation started with loop = false has run to its end without
\* being stopped, it is no longer in the registry.
C9_FinishedUnregistered ==
    \A i \in Inst :
        (threads[i].pc = "done" /\ ~threads[i].loop /\ ~threads[i].stop) =>
            trains[threads[i].train_id] # i

\* C3: once the cancellation flag of a running simulation is set, its terminal
\* status event (status = stopped) is eventually published: the pass of the
\* event ends, having sent to every websocket subscribed during it.
C3_StoppedDelivered ==
    \A i \in Inst : (Alive(i) /\ threads[i].stop) ~> (threads[i].pc = "done")

\* a _broadcast call that has not begun its pass: it waits for _clients_lock
WaitsForLock(p) == InBroadcast(p) /\ bc[p].pos = 0

\* C10: a send that never completes does not block the rest of the system:
\* every _broadcast call that waits for _clients_lock, whether made by a
\* train thread or by a ws_handler, eventually begins its pass.
C10_HangBlocksNobody == \A p \in Pub : WaitsForLock(p) ~> ~WaitsForLock(p)

\* ------------------------------------------------- claims about the store
\* the directed edges stored, and the weight the search gives an edge
Edges == {<<routes[k][1], routes[k][2]>> : k \in 1..Len(routes)}
EdgeWeight(u, v) ==
    LET k == CHOOSE k \in 1..Len(routes) : routes[k][1] = u /\ routes[k][2] = v
    IN  Max(routes[k][3], 0)

\* the stations one edge or none away from a station of S
Step(S) == S \cup {v \in StationIds : \E u \in S : <<u, v>> \in Edges}

\* the stations within n edges of a station of S
RECURSIVE Within(_, _)
Within(S, n) == IF n = 0 THEN S ELSE Within(Step(S), n - 1)

ReachableFrom(o) == Within({o}, Cardinality(StationIds))

\* the least number of edges from o to a reachable d
MinEdges(o, d) == CHOOSE n \in 0..Cardinality(StationIds) :
                      d \in Within({o}, n) /\ \A m \in 0..(n - 1) : d \notin Within({o}, m)

\* D maps each station to the least weight of a walk from the origin found so
\* far; Relax(D) also tries one more edge
Relax(D) ==
    [v \in StationIds |->
        LET via == {D[u] + EdgeWeight(u, v) :
                       u \in {x \in StationIds : <<x, v>> \in Edges /\ D[x] < Inf}}
        IN  IF via = {} THEN D[v]
            ELSE Min(D[v], CHOOSE w \in via : \A z \in via : w <= z)]

RECURSIVE Cheapest(_, _)
Cheapest(D, n) == IF n = 0 THEN D ELSE Cheapest(Relax(D), n - 1)

\* the least weight of a walk from o to d
MinWeight(o, d) ==
    Cheapest([v \in StationIds |-> IF v = o THEN 0 ELSE Inf], Cardinality(StationIds))[d]

\* a path from o to d along stored edges
IsPath(p, o, d) ==
    /\ p # <<>>
    /\ p[1] = o
    /\ p[Len(p)] = d
    /\ \A k \in 1..(Len(p) - 1) : <<p[k], p[k + 1]>> \in Edges

RECURSIVE PathWeight(_)
PathWeight(p) ==
    IF Len(p) < 2 THEN 0 ELSE EdgeWeight(p[1], p[2]) + PathWeight(Tail(p))

\* the last call was get_route_shortest
Queried == InQuery
KnownQuery == Queried /\ out.origin_id \in StationIds /\ out.destination_id \in StationIds
ReachableQuery == KnownQuery /\ out.destination_id \in ReachableFrom(out.origin_id)

\* C11: in both modes get_route_shortest finds nothing when the origin or the
\* destination is not a station id, and when the destination cannot be reached
\* from the origin along stored edges.
C11_NotFound ==
    (Queried /\ ~ReachableQuery) => ~out.res.found

\* C11 witness: two stations of a store that has edges, the second out of reach
\* of the first, queried by time.
C11_Witness ==
    /\ KnownQuery /\ ~ReachableQuery
    /\ out.mode = "time"
    /\ routes # <<>>
    /\ ~out.res.found

\* C12: by stops, the path to a reachable destination starts at the origin,
\* ends at the destination, follows stored edges and has the least number of
\* edges.
C12_FewestEdges ==
    (ReachableQuery /\ out.mode = "stops") =>
        /\ out.res.found
        /\ IsPath(out.res.path_ids, out.origin_id, out.destination_id)
        /\ Len(out.res.path_ids) - 1 = MinEdges(out.origin_id, out.destination_id)

\* C12 witness: a destination one edge away that a walk of two edges also
\* reaches.
C12_Witness ==
    /\ ReachableQuery /\ out.mode = "stops"
    /\ Len(out.res.path_ids) = 2
    /\ \E m \in StationIds \ {out.origin_id, out.destination_id} :
          <<out.origin_id, m>> \in Edges /\ <<m, out.destination_id>> \in Edges

\* C13: by time, the path to a reachable destination starts at the origin, ends
\* at the destination, follows stored edges, and no path between the two has a
\* smaller sum of edge weights.
C13_LeastWeight ==
    (ReachableQuery /\ out.mode = "time") =>
        /\ out.res.found
        /\ IsPath(out.res.path_ids, out.origin_id, out.destination_id)
        /\ PathWeight(out.res.path_ids) = MinWeight(out.origin_id, out.destination_id)

\* C13 witness: the path found has two edges, one of weight 0, where a single
\* edge of larger weight joins origin and destination.
C13_Witness ==
    /\ ReachableQuery /\ out.mode = "time"
    /\ Len(out.res.path_ids) = 3
    /\ <<out.origin_id, out.destination_id>> \in Edges
    /\ EdgeWeight(out.origin_id, out.destination_id) > PathWeight(out.res.path_ids)
    /\ \E k \in 1..2 : EdgeWeight(out.res.path_ids[k], out.res.path_ids[k + 1]) = 0

\* the total_min values the time_pairs table holds for the pair (o, d)
FlatEntries(o, d) ==
    {db.time_pairs[k][3] : k \in {j \in 1..Len(db.time_pairs) :
                                     db.time_pairs[j][1] = o /\ db.time_pairs[j][2] = d}}

\* C14 (as claimed): a route from a station to itself is the single station,
\* with stop count 0 and total time 0, in both modes.
C14_SelfRouteZeroTime ==
    (KnownQuery /\ out.origin_id = out.destination_id) =>
        /\ out.res.found
        /\ out.res.path_ids = <<out.origin_id>>
        /\ out.res.total_stops = 0
        /\ out.res.total_time = Some(0)

\* C14 (amended): a route from a station to itself is the single station with
\* stop count 0; by stops no total time is reported (None); by time the total
\* is the time_pairs entry of (x, x) when there is one and 0 otherwise.
C14_SelfRoute ==
    (KnownQuery /\ out.origin_id = out.destination_id) =>
        /\ out.res.found
        /\ out.res.path_ids = <<out.origin_id>>
        /\ out.res.total_stops = 0
        /\ out.mode = "stops" => out.res.total_time = None
        /\ out.mode = "time" =>
              LET flat == FlatEntries(out.origin_id, out.origin_id)
              IN  IF flat = {} THEN out.res.total_time = Some(0)
                  ELSE out.res.total_time \in {Some(t) : t \in flat}

\* C14 witness: a station that has edges and a time_pairs entry for itself that
\* is not 0, queried by time for the route to itself.
C14_Witness ==
    /\ KnownQuery /\ out.origin_id = out.destination_id
    /\ out.mode = "time"
    /\ \E v \in StationIds : <<out.origin_id, v>> \in Edges
    /\ FlatEntries(out.origin_id, out.origin_id) = {3}
    /\ out.res.total_time = Some(3)

\* C15: by time, the total time reported is the sum of the edge weights of the
\* returned path, unless time_pairs holds an entry for (origin, destination):
\* then it is that entry.
C15_TotalTime ==
    (ReachableQuery /\ out.mode = "time") =>
        LET flat == FlatEntries(out.origin_id, out.destination_id)
        IN  IF flat = {} THEN out.res.total_time = Some(PathWeight(out.res.path_ids))
            ELSE out.res.total_time \in {Some(t) : t \in flat}

\* C15 witness: a path of two edges or more whose weights do not sum to the
\* time_pairs entry of its ends, which is what is reported.
C15_Witness ==
    /\ ReachableQuery /\ out.mode = "time"
    /\ Len(out.res.path_ids) >= 3
    /\ FlatEntries(out.origin_id, out.destination_id) # {}
    /\ out.res.total_time # Some(PathWeight(out.res.path_ids))

\* the consecutive names of a path whose group keys differ
Changes(names) ==
    {k \in 1..(Len(names) - 1) : _group_key(names[k]) # _group_key(names[k + 1])}

\* C16: the stop count of a path result is at most the number of path vertices
\* less one, strictly less when two consecutive vertices have one group key,
\* and equal to the number of consecutive pairs whose group keys differ.
C16_StopCount ==
    (Queried /\ out.res.found) =>
        LET names == out.res.path_names
            n == Len(out.res.path_ids)
        IN  /\ Len(names) = n
            /\ out.res.total_stops <= n - 1
            /\ Cardinality(Changes(names)) < n - 1 => out.res.total_stops < n - 1
            /\ out.res.total_stops = Cardinality(Changes(names))

\* C16 witness: a path of three stations, two consecutive ones of one group.
C16_Witness ==
    /\ Queried /\ out.res.found
    /\ Len(out.res.path_ids) = 3
    /\ out.res.total_stops = 1

\* the rows <<station_id, name>> of the stations table
Stations == Range(db.stations)

\* C17: once the graph is built, every two distinct stations of one group key
\* are joined by a stored edge of weight 0 in each direction, whatever
\* Route.csv holds.
C17_InterchangeEdges ==
    Built =>
        \A s, t \in Stations :
            (s # t /\ _group_key(s[2]) = _group_key(t[2])) =>
                <<s[1], t[1], 0>> \in Range(db.routes)

\* no pair (from_id, to_id) is in two rows of the table
NoPairTwice(table) ==
    \A i, j \in 1..Len(table) :
        (table[i][1] = table[j][1] /\ table[i][2] = table[j][2]) => i = j

\* C18: running init_db, import_stations or import_routes again over the built
\* store leaves the station ids and names, the set of directed edges and the
\* weight of every edge as they were, and no directed pair is stored twice.
C18_IdempotentBuild ==
    [][(Built /\ out'.op \in {"init_db", "import_stations", "import_routes"}) =>
          /\ db'.stations = db.stations
          /\ Range(db'.routes) = Range(db.routes)
          /\ NoPairTwice(db'.routes)
      ]_vars

\* C18 witness: import_routes has run again over a store that holds sequence
\* edges with a weight of Time.csv and interchange edges.
C18_Witness ==
    /\ out.op = "import_routes"
    /\ \E r \in Range(db.routes) : r[3] = 3
    /\ \E r \in Range(db.routes) : r[3] = 0
    /\ Len(db.routes) >= 4

\* the names a data directory mentions: Fare.csv, the entries of Route.csv, the
\* row and column headers of Time.csv
Mentioned ==
    LET route_names == UNION {Range(Cells(data_dir.route[r])) : r \in 1..Len(data_dir.route)}
        col_names == IF data_dir.time.header = <<>> THEN {}
                     ELSE Range(Cells(Tail(data_dir.time.header)))
        row_names == {Strip(data_dir.time.rows[r].o) : r \in 1..Len(data_dir.time.rows)}
    IN  ({Strip(n) : n \in data_dir.fare} \cup route_names \cup col_names \cup row_names)
          \ {<<>>}

\* C19: the stations table built holds exactly one station for every strict key
\* of a name mentioned in any file of the data directory.
C19_StationUniverse ==
    Built =>
        /\ {_name_key(s[2]) : s \in Stations} = {_name_key(n) : n \in Mentioned}
        /\ \A s, t \in Stations : _name_key(s[2]) = _name_key(t[2]) => s = t

\* C20: two raw names that differ only by a trailing parenthesised suffix have
\* the same group key and different strict keys.
C20_SuffixKeys ==
    out.op = "keys" => (out.group_a = out.group_b /\ out.strict_a # out.strict_b)

\* ------------------------------------- claims about cancellation and events
\* run() of instance i makes the _broadcast call of a train_tick (line 99):
\* the while test of line 96 has just passed
CallsTick(i) == threads[i].pc # "tick" /\ threads'[i].pc = "tick"

\* What run() of an instance does once its _stop Event is set: it makes no
\* further train_tick call (the one call whose while test had already passed
\* is the only progress event still published), it enters no further pass of
\* the outer loop, the Event stays set, and it leaves run() only through the
\* publish of status = stopped, after which it publishes nothing.
CancelObserved ==
    [][\A i \in Inst :
         threads[i].stop =>
            /\ ~CallsTick(i)
            /\ ~(threads[i].pc = "outer" /\ threads'[i].pc = "inner")
            /\ threads'[i].stop
            /\ (threads'[i].pc = "done" => threads[i].pc \in {"finally", "done"})
            /\ (threads[i].pc = "finally" => threads'[i].pc \in {"finally", "done"})
      ]_vars

\* C21: once the cancellation flag of a running instance is set, the instance
\* publishes at most one further progress event, begins no further segment or
\* loop iteration, and then publishes status = stopped as its last event
\* before it exits.
C21_CancelThenStopped ==
    /\ CancelObserved
    /\ \A i \in Inst : (Alive(i) /\ threads[i].stop /\ threads[i].pc # "finally")
                            ~> (threads[i].pc = "done")

\* the progress value of the train_tick that instance i hands to _broadcast
Published(i) == Event(<<"t", i>>)[5]

\* instance i is inside a segment: between the for statement of line 91 and
\* the end of the inner while loop
InSegment(th) == th.pc \in {"inner", "tick", "sleep"}

\* run() leaves the segment it is in: the for loop moves on, or is exhausted
LeavesSegment(a, b) ==
    /\ InSegment(a)
    /\ b.pc \in {"inner", "outer", "finally"}
    /\ (b.pc # a.pc \/ b.idx # a.idx)

\* a / b <= c / d for pairs <<numerator, denominator>> of positive denominator
FracLeq(x, y) == x[1] * y[2] <= y[1] * x[2]

\* C22: in every segment that is not cancelled, the progress values published
\* are non-decreasing and lie in [0, 1], and a progress of exactly 1.0 is
\* published for the segment before any event of the next segment.
C22_SegmentProgress ==
    /\ [](\A i \in Inst : threads[i].pc = "tick" =>
              /\ 0 <= Published(i)[1]
              /\ Published(i)[1] <= Published(i)[2])
    /\ [][\A i \in Inst :
            LET a == threads[i]
                b == threads'[i]
            IN  /\ (a.pc = "sleep" /\ b.pc = "tick") =>
                       /\ b.idx = a.idx
                       /\ FracLeq(Progress(a), Progress(b))
                /\ (a.pc = "inner" /\ b.pc = "tick") => Progress(b)[1] = 0
                /\ (LeavesSegment(a, b) /\ ~a.stop) =>
                       /\ a.pc = "tick"
                       /\ bc[<<"t", i>>].pos > Len(clients)
                       /\ Published(i)[1] = Published(i)[2]
         ]_vars

\* C22 witness: an instance that was never cancelled publishes an event of
\* its second segment, the first segment having run against a duration that
\* the sleep overshot.
C22_Witness ==
    \E i \in Inst :
        /\ threads[i].pc = "tick"
        /\ ~threads[i].stop
        /\ threads[i].idx = 2
        /\ threads[i].edge_secs # <<>>
        /\ threads[i].edge_secs[1] < threads[i].ping_interval
        /\ bc[<<"t", i>>].pos >= 1

\* C23: under any interleaving of start and stop calls, every instance that
\* is alive and whose cancellation flag is not set is the instance registered
\* under its train id, so that a later stop(id) reaches it.
C23_NoOrphan ==
    \A i \in Inst :
        (Alive(i) /\ ~threads[i].stop) => trains[threads[i].train_id] = i

\* instance i has published status = started and is inside its loops
Running(i) == threads[i].pc \in {"outer", "inner", "tick", "sleep"}

\* instance j is publishing status = stopped: the pass of the event has begun
PublishesStopped(j) == threads[j].pc = "finally" /\ bc[<<"t", j>>].pos >= 1

\* C24: while the instance registered under a train id is running and not
\* cancelled, no status = stopped event is published for that id after the
\* status = started event of the instance, also when start replaced a running
\* instance of the id.
C24_StatusTracksLive ==
    \A id \in TrainIds : \A i \in Inst :
        (trains[id] = i /\ Running(i) /\ ~threads[i].stop) =>
            \A j \in InstancesOf(id) : ~PublishesStopped(j)

====
